---- MODULE Spec2Model ----
(***************************************************************************)
(* Model of lwe.core.backend.Backend: the conversation state, the preset   *)
(* override resolver (extract_preset_configuration_from_overrides) and the *)
(* template execution pipeline (run_template, run_template_setup,          *)
(* run_template_compiled).                                                 *)
(*                                                                         *)
(* Python values are tagged records, so that None, "", {} and False are    *)
(* distinct values with Python's truthiness, and a mapping is a function   *)
(* from its keys: "k in d" is k \in DOMAIN d.val.                          *)
(***************************************************************************)
EXTENDS Integers, Sequences, FiniteSets, TLC

\* ------------------------------------------------------------------ bounds
\* number of preset names the payloads and the session can mention
NumPresets == 2
\* number of conversation identifiers the provider can hand out
MaxConversations == 1
\* number of chunks a streamed response is made of
MaxChunks == 2

\* ----------------------------------------------------------- Python values
None == [type |-> "NoneType"]
Str(s) == [type |-> "str", val |-> s]
Num(n) == [type |-> "int", val |-> n]
Bool(b) == [type |-> "bool", val |-> b]
Dict(d) == [type |-> "dict", val |-> d]
Tuple(t) == [type |-> "tuple", val |-> t]

EmptyMap == [k \in {} |-> None]

\* bool(v): the truth value Python gives v in "if v", "not v", "v or w"
Truthy(v) ==
  CASE v.type = "NoneType" -> FALSE
    [] v.type = "bool" -> v.val
    [] v.type = "int" -> v.val # 0
    [] v.type = "str" -> v.val # ""
    [] v.type = "dict" -> DOMAIN v.val # {}
    [] v.type = "tuple" -> Len(v.val) > 0

\* v or w
Or(v, w) == IF Truthy(v) THEN v ELSE w

\* k in d
Has(d, k) == k \in DOMAIN d.val

\* d[k]
Get(d, k) == d.val[k]

\* the (success, payload, user_message) triple every operation returns
Triple(success, payload, user_message) ==
  [success |-> success, payload |-> payload, message |-> user_message]

\* ------------------------------------------------------------ input domains
PresetPool == <<"gpt4", "creative", "precise", "terse", "verbose">>
PresetNames == {PresetPool[i] : i \in 1..NumPresets}

\* values a 'preset' key or the standing active preset can hold
PresetValues == {None, Str("")} \cup {Str(p) : p \in PresetNames}

PresetOverridesValues == {None, Dict("temperature" :> Num(0))}

\* request_overrides mappings: every combination of presence and value of
\* the three keys the resolver looks at
RequestOverridesMaps ==
  { [k \in ks |-> CASE k = "preset" -> p
                    [] k = "activate_preset" -> a
                    [] k = "preset_overrides" -> po] :
      ks \in SUBSET {"preset", "activate_preset", "preset_overrides"},
      p \in PresetValues, a \in {Bool(TRUE), Bool(FALSE)},
      po \in PresetOverridesValues }

\* override payloads handed to the resolver
OverridePayloads ==
  {Dict(EmptyMap), Dict("b" :> Num(2))}
    \cup {Dict("request_overrides" :> Dict(ro)) : ro \in RequestOverridesMaps}

\* ------------------------------------------------------------------- state
VARIABLES
  conversation_id,         \* self.conversation_id
  conversation_title,      \* self.conversation_title
  conversation_title_set,  \* self.conversation_title_set
  message_clipboard,       \* self.message_clipboard
  streaming,               \* self.streaming
  active_preset_name,      \* self.active_preset_name
  next_id,                 \* next conversation identifier the provider hands out
  pc,                      \* position of the session's single thread of control
  frame,                   \* locals of the run_template call in progress
  calls,                   \* calls made by the current / last operation, in order
  stage,                   \* result triple of each stage of the current / last operation
  result,                  \* value returned by the last operation
  last_op,                 \* the last operation that returned
  start,                   \* session fields as they were when the operation began
  implemented,             \* the methods the concrete backend class defines
  provider,                \* self.provider
  model                    \* self.model

vars == <<conversation_id, conversation_title, conversation_title_set,
          message_clipboard, streaming, active_preset_name, next_id, pc,
          frame, calls, stage, result, last_op, start, implemented,
          provider, model>>

conversation == <<conversation_id, conversation_title, conversation_title_set,
                  message_clipboard>>

Call(fn, args) == [fn |-> fn, args |-> args]

\* locals of run_template / run_template_setup; args are the caller's objects
NoFrame == [template_name |-> None, args |-> None, template_vars |-> None,
            overrides |-> None, substitutions |-> None, message |-> None,
            resolver_arg |-> None, template_overrides |-> None,
            preset_name |-> None, preset_overrides |-> None,
            alias |-> [template_vars |-> FALSE, overrides |-> FALSE],
            caller |-> [template_vars |-> None, overrides |-> None],
            produced |-> 0, response |-> None,
            request_overrides |-> None, stream_len |-> 0, stream_fails |-> FALSE,
            cancelled_at |-> -1]

Snapshot == [active_preset_name |-> active_preset_name,
             conversation_id |-> conversation_id,
             conversation_title |-> conversation_title,
             conversation_title_set |-> conversation_title_set,
             message_clipboard |-> message_clipboard,
             streaming |-> streaming,
             provider |-> provider,
             model |-> model,
             op |-> ""]

\* ------------------------------------------------ preset override resolver
\* line 112: the payload carries a preset or preset overrides
\* (faulty variant: only the presence of request_overrides is tested)
has_preset_configuration_presence_only(overrides) ==
  Has(overrides, "request_overrides")

has_preset_configuration(overrides) ==
  /\ Has(overrides, "request_overrides")
  /\ \/ Has(Get(overrides, "request_overrides"), "preset")
     \/ Has(Get(overrides, "request_overrides"), "preset_overrides")

\* lines 113-114 and 121-122: the explicit preset, else the standing one
\* (faulty variant: a standing active preset takes precedence over the explicit one)
resolved_preset_name_active_first(request_overrides, active) ==
  IF Has(request_overrides, "preset") /\ ~Truthy(active)
  THEN Get(request_overrides, "preset")
  ELSE active

resolved_preset_name(request_overrides, active) ==
  IF Has(request_overrides, "preset")
  THEN Get(request_overrides, "preset")
  ELSE active

\* lines 113-120: the arguments of the self.activate_preset calls, in order
\* (faulty variant: the value of activate_preset is not tested)
preset_activations_if_present(request_overrides) ==
  IF /\ Has(request_overrides, "preset")
     /\ Has(request_overrides, "activate_preset")
  THEN <<Get(request_overrides, "preset")>>
  ELSE <<>>

preset_activations(request_overrides) ==
  IF /\ Has(request_overrides, "preset")
     /\ Has(request_overrides, "activate_preset")
     /\ Truthy(Get(request_overrides, "activate_preset"))
  THEN <<Get(request_overrides, "preset")>>
  ELSE <<>>

\* line 123: not preset_name
\* (faulty variant: preset_name is None)
no_preset_is_none(preset_name) == preset_name = None

no_preset(preset_name) == ~Truthy(preset_name)

\* lines 125-126
captured_preset_overrides(request_overrides) ==
  IF Has(request_overrides, "preset_overrides")
  THEN Get(request_overrides, "preset_overrides")
  ELSE None

\* Backend.extract_preset_configuration_from_overrides, as a function of the
\* payload and of self.active_preset_name.  ret is the returned triple,
\* activate the arguments of the self.activate_preset calls it makes.
extract_preset_configuration_from_overrides(overrides, active) ==
  IF ~has_preset_configuration(overrides)
  THEN [ret |-> Triple(TRUE, Tuple(<<None, None, overrides>>),
                       "Extracted preset configuration from request overrides: {overrides}"),
        activate |-> <<>>]
  ELSE LET request_overrides == Get(overrides, "request_overrides")
           preset_name == resolved_preset_name(request_overrides, active)
       IN IF no_preset(preset_name)
          THEN [ret |-> Triple(FALSE, Tuple(<<preset_name, None, overrides>>),
                               "No active preset to override"),
                activate |-> preset_activations(request_overrides)]
          ELSE [ret |-> Triple(TRUE,
                               Tuple(<<preset_name,
                                       captured_preset_overrides(request_overrides),
                                       overrides>>),
                               "Extracted preset configuration from request overrides: {overrides}"),
                activate |-> preset_activations(request_overrides)]

\* the standing active preset after the activate_preset calls in acts
activate_preset(active, acts) ==
  IF acts = <<>> THEN active ELSE acts[Len(acts)]

ActivateCalls(acts) == [i \in 1..Len(acts) |-> Call("activate_preset", <<acts[i]>>)]

\* -------------------------------------------------------- backend contract
\* the methods Backend declares with @abstractmethod, lines 190-273
AbstractMethods ==
  {"conversation_data_to_messages", "delete_conversation", "set_title",
   "get_history", "get_conversation", "set_override_llm", "ask_stream", "ask"}

\* the methods of the concrete backend that Backend's own methods call
\* without declaring them: self.activate_preset at line 120, self._ask at
\* line 163
UndeclaredMethods == {"activate_preset", "_ask"}

Capabilities == AbstractMethods \cup UndeclaredMethods

\* the concrete backend classes considered: the complete one, and the ones
\* that leave out one capability
BackendClasses == {Capabilities} \cup {Capabilities \ {c} : c \in Capabilities}

\* ABC refuses to instantiate a class that leaves an abstract method undefined
instantiable(methods) == AbstractMethods \subseteq methods

\* the exception an operation raises
Raised(exception, what) == [type |-> exception, val |-> what]

\* ------------------------------------------------------------------- Init
Init ==
  /\ conversation_id = None
  /\ conversation_title = None
  /\ conversation_title_set = None
  /\ message_clipboard = None
  /\ streaming = FALSE
  /\ active_preset_name \in PresetValues
  /\ next_id = 1
  /\ pc = "idle"
  /\ frame = NoFrame
  /\ calls = <<>>
  /\ stage = EmptyMap
  /\ result = None
  /\ last_op = "init"
  /\ implemented = Capabilities
  /\ provider = Str("provider")
  /\ model = None
  /\ start = Snapshot

\* construction of any of the concrete backend classes: a class ABC refuses
\* never becomes a session
InitContract ==
  /\ conversation_id = None
  /\ conversation_title = None
  /\ conversation_title_set = None
  /\ message_clipboard = None
  /\ streaming = FALSE
  /\ active_preset_name \in PresetValues
  /\ next_id = 1
  /\ implemented \in BackendClasses
  /\ pc = IF instantiable(implemented) THEN "idle" ELSE "rejected"
  /\ frame = NoFrame
  /\ calls = <<>>
  /\ stage = EmptyMap
  /\ result = IF instantiable(implemented) THEN None
              ELSE Raised("TypeError", "Can't instantiate abstract class")
  /\ last_op = "init"
  /\ provider = Str("provider")
  /\ model = None
  /\ start = Snapshot

\* ------------------------------------------------------------- operations
\* where the session's thread can be when new_conversation is called: between
\* operations, or inside a running ask_stream (from its stream callback)
NewConversationPoints == {"idle", "ask_stream", "ask_stream_poll"}

\* (faulty variant: the message clipboard is left as it is)
new_conversation_keeps_clipboard ==
  /\ pc \in NewConversationPoints
  /\ conversation_id' = None
  /\ conversation_title' = None
  /\ conversation_title_set' = None
  /\ IF pc = "idle"
     THEN /\ frame' = NoFrame
          /\ calls' = <<>>
          /\ stage' = EmptyMap
          /\ result' = None
     ELSE UNCHANGED <<frame, calls, stage, result>>
  /\ last_op' = "new_conversation"
  /\ start' = [Snapshot EXCEPT !.op = "new_conversation"]
  /\ UNCHANGED <<message_clipboard, streaming, active_preset_name, next_id, pc>>
  /\ UNCHANGED <<implemented, provider, model>>

\* (faulty variant: the session is reset with initialize_backend, lines 39-42)
new_conversation_reinitializes ==
  /\ pc \in NewConversationPoints
  /\ conversation_id' = None
  /\ conversation_title' = None
  /\ conversation_title_set' = None
  /\ message_clipboard' = None
  /\ streaming' = FALSE
  /\ provider' = None
  /\ IF pc = "idle"
     THEN /\ frame' = NoFrame
          /\ calls' = <<>>
          /\ stage' = EmptyMap
          /\ result' = None
     ELSE UNCHANGED <<frame, calls, stage, result>>
  /\ last_op' = "new_conversation"
  /\ start' = [Snapshot EXCEPT !.op = "new_conversation"]
  /\ UNCHANGED <<active_preset_name, next_id, pc, implemented, model>>

\* Backend.new_conversation
new_conversation ==
  /\ pc \in NewConversationPoints
  /\ conversation_id' = None
  /\ conversation_title' = None
  /\ conversation_title_set' = None
  /\ message_clipboard' = None
  /\ IF pc = "idle"
     THEN /\ frame' = NoFrame
          /\ calls' = <<>>
          /\ stage' = EmptyMap
          /\ result' = None
     ELSE UNCHANGED <<frame, calls, stage, result>>
  /\ last_op' = "new_conversation"
  /\ start' = [Snapshot EXCEPT !.op = "new_conversation"]
  /\ UNCHANGED <<streaming, active_preset_name, next_id, pc>>
  /\ UNCHANGED <<implemented, provider, model>>

\* the model names a caller can select
ModelNames == {"gpt-4"}

\* Backend.set_model: the model is recorded and the provider's answer returned
set_model ==
  /\ pc = "idle"
  /\ \E model_name \in ModelNames :
       /\ model' = Str(model_name)
       /\ calls' = <<Call("provider.set_model", <<Str(model_name)>>)>>
       /\ result' = Triple(TRUE, Str(model_name), "Model set")
  /\ frame' = NoFrame
  /\ stage' = EmptyMap
  /\ start' = Snapshot
  /\ last_op' = "set_model"
  /\ UNCHANGED <<conversation, streaming, active_preset_name, next_id, pc,
                 implemented, provider>>

\* a direct call of the resolver on any payload
extract_call ==
  /\ pc = "idle"
  /\ \E overrides \in OverridePayloads :
       LET r == extract_preset_configuration_from_overrides(overrides, active_preset_name)
       IN /\ r.activate # <<>> => "activate_preset" \in implemented
          /\ active_preset_name' = activate_preset(active_preset_name, r.activate)
          /\ calls' = ActivateCalls(r.activate)
          /\ stage' = ("extract" :> r.ret)
          /\ result' = r.ret
          /\ frame' = [NoFrame EXCEPT !.resolver_arg = overrides]
  /\ last_op' = "extract_preset_configuration_from_overrides"
  /\ start' = Snapshot
  /\ UNCHANGED <<conversation, streaming, next_id, pc>>
  /\ UNCHANGED <<implemented, provider, model>>

\* -------------------------------------------------------- template storage
Lit(s) == [lit |-> s]
Var(v) == [var |-> v]

\* the templates in storage: body, declared substitutions, declared overrides
Templates ==
  [greet |-> [body |-> <<Lit("Hello, "), Var("name")>>,
              substitutions |-> Dict(EmptyMap),
              overrides |-> Dict(EmptyMap)],
   story |-> [body |-> <<Lit("Tell "), Var("name"), Lit(" a story in "), Var("lang")>>,
              substitutions |-> Dict(("name" :> Str("World")) @@ ("lang" :> Str("en"))),
              overrides |-> Dict(("a" :> Num(1)) @@ ("b" :> Num(2)))],
   preset |-> [body |-> <<Lit("Summarize")>>,
               substitutions |-> Dict(EmptyMap),
               overrides |-> Dict("request_overrides" :>
                                    Dict("preset" :> Str(PresetPool[1])))],
   activate |-> [body |-> <<Lit("Draft for "), Var("name")>>,
                 substitutions |-> Dict("name" :> Str("World")),
                 overrides |-> Dict(("a" :> Num(1)) @@
                                    ("request_overrides" :>
                                       Dict(("preset" :> Str(PresetPool[1])) @@
                                            ("activate_preset" :> Bool(TRUE)))))],
   switch |-> [body |-> <<Lit("Rewrite")>>,
               substitutions |-> Dict(EmptyMap),
               overrides |-> Dict("request_overrides" :>
                                    Dict(("preset" :> Str(PresetPool[NumPresets])) @@
                                         ("activate_preset" :> Bool(TRUE)) @@
                                         ("preset_overrides" :> Dict("temperature" :> Num(0)))))],
   tune |-> [body |-> <<Lit("Translate to "), Var("lang")>>,
             substitutions |-> Dict("lang" :> Str("en")),
             overrides |-> Dict("request_overrides" :>
                                  Dict("preset_overrides" :> Dict("temperature" :> Num(0))))],
   blank |-> [body |-> <<Lit("Explain")>>,
              substitutions |-> Dict(EmptyMap),
              overrides |-> Dict("request_overrides" :>
                                   Dict(("preset" :> Str("")) @@
                                        ("activate_preset" :> Bool(TRUE))))]]

\* names a caller can ask for; "missing" is not in storage
TemplateNames == DOMAIN Templates \cup {"missing"}

\* template_vars / overrides arguments a caller can pass to run_template
CallerTemplateVars ==
  {None, Dict("name" :> Str("Ada")),
   Dict(("name" :> Str("Bob")) @@ ("mood" :> Str("happy")))}

CallerOverrides ==
  {None, Dict(EmptyMap), Dict(("b" :> Num(3)) @@ ("c" :> Num(4))),
   Dict("request_overrides" :> Dict("preset" :> Str(PresetPool[NumPresets])))}

\* the presets in preset storage
StoredPresets == {PresetPool[1]}

\* TemplateManager.get_template_variables_substitutions
get_template_variables_substitutions(template_name) ==
  IF template_name.val \in DOMAIN Templates
  THEN Triple(TRUE,
              Tuple(<<template_name,
                      Tuple(<<>>),
                      Templates[template_name.val].substitutions>>),
              "Loaded template substitutions: {template_name}")
  ELSE Triple(FALSE, template_name, "Template not found")

RECURSIVE Render(_, _)
Render(body, substitutions) ==
  IF body = <<>> THEN ""
  ELSE LET t == Head(body)
           piece == IF "lit" \in DOMAIN t THEN t.lit
                    ELSE IF Has(substitutions, t.var) THEN Get(substitutions, t.var).val
                    ELSE ""
       IN piece \o Render(Tail(body), substitutions)

\* TemplateManager.build_message_from_template: (message, overrides)
build_message_from_template(template_name, substitutions) ==
  <<Str(Render(Templates[template_name.val].body, substitutions)),
    Templates[template_name.val].overrides>>

\* util.merge_dicts(dict1, dict2): dict1 updated in place with dict2's items
merge_dicts(dict1, dict2) ==
  Dict([k \in DOMAIN dict1.val \cup DOMAIN dict2.val |->
          IF k \in DOMAIN dict2.val THEN dict2.val[k] ELSE dict1.val[k]])

\* outcomes of the concrete backend's set_override_llm(preset_name, preset_overrides)
set_override_llm(preset_name, preset_overrides) ==
  {Triple(FALSE, None, "Preset not found")}
    \cup IF preset_name.val \in StoredPresets
         THEN {Triple(TRUE, Tuple(<<Str("llm"), preset_name, preset_overrides>>),
                      "Set override LLM")}
         ELSE {}

\* outcomes of the concrete backend's _ask(message, **overrides)
ask(message, overrides) ==
  {Triple(TRUE, Str("response"), "Response received"),
   Triple(FALSE, Str("provider error"), "Provider request failed")}

\* ------------------------------------------------------- run_template steps
\* an operation begins: its history is cleared
Begin(op_frame) ==
  /\ frame' = op_frame
  /\ calls' = <<>>
  /\ stage' = EmptyMap
  /\ result' = None
  /\ start' = Snapshot

\* lines 175-176: `x or {}` is the caller's own object when x is truthy and
\* a new empty mapping otherwise
Aliases(arg) == Truthy(arg)

\* lines 181 and 186 discard what merge_dicts returns: the merge is a write
\* into the mapping its first argument refers to. The frame after such a
\* write through the local name; the caller's object changes with it when
\* the local refers to it.
Write(f, local, value) ==
  [f EXCEPT ![local] = value,
            !.caller = IF local \in DOMAIN f.alias /\ f.alias[local]
                       THEN [f.caller EXCEPT ![local] = value]
                       ELSE f.caller]

\* run_template returns r
Return(r) ==
  /\ result' = r
  /\ pc' = "idle"
  /\ last_op' = "run_template"

\* the caller invokes run_template; lines 175-176
run_template ==
  /\ pc = "idle"
  /\ \E template_name \in TemplateNames, template_vars \in CallerTemplateVars,
        overrides \in CallerOverrides :
       Begin([NoFrame EXCEPT
                !.template_name = Str(template_name),
                !.args = [template_vars |-> template_vars, overrides |-> overrides],
                !.alias = [template_vars |-> Aliases(template_vars),
                           overrides |-> Aliases(overrides)],
                !.caller = [template_vars |-> template_vars, overrides |-> overrides],
                !.template_vars = Or(template_vars, Dict(EmptyMap)),
                !.overrides = Or(overrides, Dict(EmptyMap))])
  /\ pc' = "get_template_variables_substitutions"
  /\ UNCHANGED <<conversation, streaming, active_preset_name, next_id, last_op>>
  /\ UNCHANGED <<implemented, provider, model>>

\* line 178: if not success
lookup_failed(r) == ~r.success

\* lines 177-180
run_template_lookup ==
  /\ pc = "get_template_variables_substitutions"
  /\ LET r == get_template_variables_substitutions(frame.template_name)
     IN /\ calls' = Append(calls, Call("get_template_variables_substitutions",
                                       <<frame.template_name>>))
        /\ stage' = ("lookup" :> r) @@ stage
        /\ IF lookup_failed(r)
           THEN /\ Return(r)
                /\ UNCHANGED frame
           ELSE /\ frame' = [frame EXCEPT !.substitutions = r.payload.val[3]]
                /\ pc' = "merge_template_vars"
                /\ UNCHANGED <<result, last_op>>
  /\ UNCHANGED <<conversation, streaming, active_preset_name, next_id, start>>
  /\ UNCHANGED <<implemented, provider, model>>

\* (faulty variant: the merge is lost, the storage's substitutions are used)
run_template_merge_vars_lost ==
  /\ pc = "merge_template_vars"
  /\ pc' = "run_template_setup"
  /\ UNCHANGED <<conversation, streaming, active_preset_name, next_id, calls,
                 stage, result, last_op, start, frame>>
  /\ UNCHANGED <<implemented, provider, model>>

\* (faulty variant: the arguments of merge_dicts are swapped, the template wins)
run_template_merge_vars_swapped ==
  /\ pc = "merge_template_vars"
  /\ calls' = Append(calls, Call("merge_dicts", <<frame.template_vars, frame.substitutions>>))
  /\ frame' = Write(frame, "substitutions", merge_dicts(frame.template_vars, frame.substitutions))
  /\ pc' = "run_template_setup"
  /\ UNCHANGED <<conversation, streaming, active_preset_name, next_id,
                 stage, result, last_op, start>>
  /\ UNCHANGED <<implemented, provider, model>>

\* line 181
run_template_merge_vars ==
  /\ pc = "merge_template_vars"
  /\ calls' = Append(calls, Call("merge_dicts", <<frame.substitutions, frame.template_vars>>))
  /\ frame' = Write(frame, "substitutions", merge_dicts(frame.substitutions, frame.template_vars))
  /\ pc' = "run_template_setup"
  /\ UNCHANGED <<conversation, streaming, active_preset_name, next_id,
                 stage, result, last_op, start>>
  /\ UNCHANGED <<implemented, provider, model>>

\* run_template_setup, lines 137-140
run_template_setup_build ==
  /\ pc = "run_template_setup"
  /\ LET substitutions == Or(frame.substitutions, Dict(EmptyMap))
         built == build_message_from_template(frame.template_name, substitutions)
     IN /\ calls' = Append(calls, Call("build_message_from_template",
                                       <<frame.template_name, substitutions>>))
        /\ frame' = [frame EXCEPT !.message = built[1],
                                  !.template_overrides = built[2],
                                  !.preset_name = None]
  /\ pc' = "extract_preset_configuration_from_overrides"
  /\ UNCHANGED <<conversation, streaming, active_preset_name, next_id,
                 stage, result, last_op, start>>
  /\ UNCHANGED <<implemented, provider, model>>

\* line 143: the triple run_template_setup returns when the resolver failed
\* (faulty variant: the resolver's message is replaced by the setup's own)
setup_extract_failure_own_message(r, message, preset_name, overrides) ==
  Triple(r.success, Tuple(<<message, preset_name, overrides>>),
         "Set up of template run failed")

setup_extract_failure(r, message, preset_name, overrides) ==
  Triple(r.success, Tuple(<<message, preset_name, overrides>>), r.message)

\* run_template_setup, lines 141-144, and run_template's return at 183-184
run_template_setup_extract ==
  /\ pc = "extract_preset_configuration_from_overrides"
  /\ LET r == extract_preset_configuration_from_overrides(frame.template_overrides,
                                                          active_preset_name)
     IN /\ r.activate # <<>> => "activate_preset" \in implemented
        /\ active_preset_name' = activate_preset(active_preset_name, r.activate)
        /\ calls' = Append(calls, Call("extract_preset_configuration_from_overrides",
                                       <<frame.template_overrides>>))
                      \o ActivateCalls(r.activate)
        /\ stage' = ("extract" :> r.ret) @@ stage
        /\ IF ~r.ret.success
           THEN /\ Return(setup_extract_failure(r.ret, frame.message,
                                                 frame.preset_name,
                                                 frame.template_overrides))
                /\ frame' = [frame EXCEPT !.resolver_arg = frame.template_overrides]
           ELSE /\ frame' = [frame EXCEPT
                               !.resolver_arg = frame.template_overrides,
                               !.preset_name = r.ret.payload.val[1],
                               !.preset_overrides = r.ret.payload.val[2],
                               !.template_overrides = r.ret.payload.val[3]]
                /\ pc' = "set_override_llm"
                /\ UNCHANGED <<result, last_op>>
  /\ UNCHANGED <<conversation, streaming, next_id, start>>
  /\ UNCHANGED <<implemented, provider, model>>

\* (faulty variant: a failed set_override_llm does not end the run)
run_template_setup_llm_continues ==
  /\ pc = "set_override_llm"
  /\ IF Truthy(frame.preset_name)
     THEN \E r \in set_override_llm(frame.preset_name, frame.preset_overrides) :
            /\ calls' = Append(calls, Call("set_override_llm",
                                           <<frame.preset_name, frame.preset_overrides>>))
            /\ stage' = ("llm" :> r) @@ stage
            /\ pc' = "merge_overrides"
            /\ UNCHANGED <<result, last_op>>
     ELSE /\ pc' = "merge_overrides"
          /\ UNCHANGED <<calls, stage, result, last_op>>
  /\ UNCHANGED <<conversation, streaming, active_preset_name, next_id, frame, start>>
  /\ UNCHANGED <<implemented, provider, model>>

\* (faulty variant: a failed set_override_llm restores the standing active preset)
run_template_setup_llm_rollback ==
  /\ pc = "set_override_llm"
  /\ IF Truthy(frame.preset_name)
     THEN \E r \in set_override_llm(frame.preset_name, frame.preset_overrides) :
            /\ calls' = Append(calls, Call("set_override_llm",
                                           <<frame.preset_name, frame.preset_overrides>>))
            /\ stage' = ("llm" :> r) @@ stage
            /\ IF r.success
               THEN /\ pc' = "merge_overrides"
                    /\ UNCHANGED <<result, last_op, active_preset_name>>
               ELSE /\ Return(r)
                    /\ active_preset_name' = start.active_preset_name
     ELSE /\ pc' = "merge_overrides"
          /\ UNCHANGED <<calls, stage, result, last_op, active_preset_name>>
  /\ UNCHANGED <<conversation, streaming, next_id, frame, start>>
  /\ UNCHANGED <<implemented, provider, model>>

\* (faulty variant: the preset overrides are not passed to set_override_llm)
run_template_setup_llm_drops_overrides ==
  /\ pc = "set_override_llm"
  /\ IF Truthy(frame.preset_name)
     THEN \E r \in set_override_llm(frame.preset_name, None) :
            /\ calls' = Append(calls, Call("set_override_llm",
                                           <<frame.preset_name, None>>))
            /\ stage' = ("llm" :> r) @@ stage
            /\ IF r.success
               THEN /\ pc' = "merge_overrides"
                    /\ UNCHANGED <<result, last_op>>
               ELSE Return(r)
     ELSE /\ pc' = "merge_overrides"
          /\ UNCHANGED <<calls, stage, result, last_op>>
  /\ UNCHANGED <<conversation, streaming, active_preset_name, next_id, frame, start>>
  /\ UNCHANGED <<implemented, provider, model>>

\* run_template_setup, lines 145-151, and run_template's return at 183-185
run_template_setup_llm ==
  /\ pc = "set_override_llm"
  /\ IF Truthy(frame.preset_name)
     THEN \E r \in set_override_llm(frame.preset_name, frame.preset_overrides) :
            /\ calls' = Append(calls, Call("set_override_llm",
                                           <<frame.preset_name, frame.preset_overrides>>))
            /\ stage' = ("llm" :> r) @@ stage
            /\ IF r.success
               THEN /\ pc' = "merge_overrides"
                    /\ UNCHANGED <<result, last_op>>
               ELSE Return(r)
     ELSE /\ pc' = "merge_overrides"
          /\ UNCHANGED <<calls, stage, result, last_op>>
  /\ UNCHANGED <<conversation, streaming, active_preset_name, next_id, frame, start>>
  /\ UNCHANGED <<implemented, provider, model>>

\* (faulty variant: the merge writes into the caller's overrides and the
\* template's mapping is rebound to it)
run_template_merge_overrides_into_caller ==
  /\ pc = "merge_overrides"
  /\ calls' = Append(calls, Call("merge_dicts", <<frame.template_overrides, frame.overrides>>))
  /\ frame' = [Write(frame, "overrides",
                     merge_dicts(frame.template_overrides, frame.overrides))
                EXCEPT !.template_overrides =
                         merge_dicts(frame.template_overrides, frame.overrides)]
  /\ pc' = "run_template_compiled"
  /\ UNCHANGED <<conversation, streaming, active_preset_name, next_id,
                 stage, result, last_op, start>>
  /\ UNCHANGED <<implemented, provider, model>>

\* (faulty variant: the arguments of merge_dicts are swapped, the template wins)
run_template_merge_overrides_swapped ==
  /\ pc = "merge_overrides"
  /\ calls' = Append(calls, Call("merge_dicts", <<frame.overrides, frame.template_overrides>>))
  /\ frame' = Write(frame, "template_overrides", merge_dicts(frame.overrides, frame.template_overrides))
  /\ pc' = "run_template_compiled"
  /\ UNCHANGED <<conversation, streaming, active_preset_name, next_id,
                 stage, result, last_op, start>>
  /\ UNCHANGED <<implemented, provider, model>>

\* line 186
run_template_merge_overrides ==
  /\ pc = "merge_overrides"
  /\ calls' = Append(calls, Call("merge_dicts", <<frame.template_overrides, frame.overrides>>))
  /\ frame' = Write(frame, "template_overrides", merge_dicts(frame.template_overrides, frame.overrides))
  /\ pc' = "run_template_compiled"
  /\ UNCHANGED <<conversation, streaming, active_preset_name, next_id,
                 stage, result, last_op, start>>
  /\ UNCHANGED <<implemented, provider, model>>

\* what a request leaves in the conversation state: a successful one sets
\* the clipboard to the response and opens a conversation if none is open
provider_effects(r) ==
  IF r.success
  THEN /\ conversation_id # None \/ next_id <= MaxConversations
       /\ message_clipboard' = r.payload
       /\ IF conversation_id = None
          THEN /\ conversation_id' = Num(next_id)
               /\ next_id' = next_id + 1
          ELSE UNCHANGED <<conversation_id, next_id>>
  ELSE UNCHANGED <<conversation_id, next_id, message_clipboard>>

\* (faulty variant: the request is dispatched a second time)
run_template_compiled_redispatches ==
  /\ pc = "run_template_compiled"
  /\ "_ask" \in implemented
  /\ LET overrides == Or(frame.template_overrides, Dict(EmptyMap))
     IN \E r \in ask(frame.message, overrides) :
          /\ provider_effects(r)
          /\ calls' = calls \o <<Call("_ask", <<frame.message, overrides>>),
                                 Call("_ask", <<frame.message, overrides>>)>>
          /\ stage' = ("ask" :> r) @@ stage
          /\ Return(r)
  /\ UNCHANGED <<conversation_title, conversation_title_set, streaming,
                 active_preset_name, frame, start>>
  /\ UNCHANGED <<implemented, provider, model>>

\* (faulty variant: a failed request is reported as an empty successful response)
run_template_compiled_swallows ==
  /\ pc = "run_template_compiled"
  /\ "_ask" \in implemented
  /\ LET overrides == Or(frame.template_overrides, Dict(EmptyMap))
     IN \E r \in ask(frame.message, overrides) :
          /\ provider_effects(r)
          /\ calls' = Append(calls, Call("_ask", <<frame.message, overrides>>))
          /\ stage' = ("ask" :> r) @@ stage
          /\ Return(IF r.success THEN r ELSE Triple(TRUE, None, r.message))
  /\ UNCHANGED <<conversation_title, conversation_title_set, streaming,
                 active_preset_name, frame, start>>
  /\ UNCHANGED <<implemented, provider, model>>

\* run_template_compiled, lines 161-164, and run_template's return at 187-188
run_template_compiled ==
  /\ pc = "run_template_compiled"
  /\ "_ask" \in implemented
  /\ LET overrides == Or(frame.template_overrides, Dict(EmptyMap))
     IN \E r \in ask(frame.message, overrides) :
          /\ provider_effects(r)
          /\ calls' = Append(calls, Call("_ask", <<frame.message, overrides>>))
          /\ stage' = ("ask" :> r) @@ stage
          /\ Return(r)
  /\ UNCHANGED <<conversation_title, conversation_title_set, streaming,
                 active_preset_name, frame, start>>
  /\ UNCHANGED <<implemented, provider, model>>

\* the concrete backend's set_title(title, conversation_id)
set_title ==
  /\ pc = "idle"
  /\ conversation_id # None
  /\ conversation_title' = Str("title")
  /\ conversation_title_set' = Bool(TRUE)
  /\ Begin(NoFrame)
  /\ last_op' = "set_title"
  /\ UNCHANGED <<conversation_id, message_clipboard, streaming,
                 active_preset_name, next_id, pc>>
  /\ UNCHANGED <<implemented, provider, model>>

\* the chunks the provider streams, in generation order
Chunks == <<"blue ", "wet ", "round ", "old ", "home ">>

\* request_overrides a caller can pass to ask_stream
StreamRequestOverrides ==
  {Dict(EmptyMap), Dict("stream_callback" :> Str("<function stream_callback>"))}

\* the stream callback calls ask_stream makes for one chunk
\* (faulty variant: the callback gets the response assembled so far)
stream_callback_calls_cumulative(request_overrides, chunk, response) ==
  IF Has(request_overrides, "stream_callback")
  THEN <<Call("stream_callback", <<Str(response \o chunk)>>)>>
  ELSE <<>>

stream_callback_calls(request_overrides, chunk, response) ==
  IF Has(request_overrides, "stream_callback")
  THEN <<Call("stream_callback", <<Str(chunk)>>)>>
  ELSE <<>>

\* the concrete backend's ask_stream(input, request_overrides): the call sets
\* the streaming flag; the provider will produce stream_len chunks or fail
ask_stream ==
  /\ pc = "idle"
  /\ streaming' = TRUE
  /\ \E request_overrides \in StreamRequestOverrides, n \in 1..MaxChunks,
        fails \in BOOLEAN :
       Begin([NoFrame EXCEPT !.response = Str(""),
                             !.request_overrides = request_overrides,
                             !.stream_len = n,
                             !.stream_fails = fails])
  /\ pc' = "ask_stream"
  /\ UNCHANGED <<conversation, active_preset_name, next_id, last_op>>
  /\ UNCHANGED <<implemented, provider, model>>

\* the provider request fails: ask_stream returns the failure
ask_stream_fail ==
  /\ pc = "ask_stream"
  /\ frame.stream_fails
  /\ streaming' = FALSE
  /\ result' = Triple(FALSE, Str("provider error"), "Provider request failed")
  /\ pc' = "idle"
  /\ last_op' = "ask_stream"
  /\ UNCHANGED <<conversation, active_preset_name, next_id, frame, calls,
                 stage, start>>
  /\ UNCHANGED <<implemented, provider, model>>

\* one turn of the streaming loop: the next chunk is consumed, appended to
\* the response and handed to the stream callback
ask_stream_chunk ==
  /\ pc = "ask_stream"
  /\ ~frame.stream_fails
  /\ LET chunk == Chunks[frame.produced + 1]
     IN /\ calls' = calls \o stream_callback_calls(frame.request_overrides, chunk,
                                                    frame.response.val)
        /\ frame' = [frame EXCEPT !.produced = frame.produced + 1,
                                  !.response = Str(frame.response.val \o chunk)]
  /\ pc' = "ask_stream_poll"
  /\ UNCHANGED <<conversation, streaming, active_preset_name, next_id,
                 stage, result, last_op, start>>
  /\ UNCHANGED <<implemented, provider, model>>

\* the chunk boundary: the streaming flag is polled
\* (faulty variant: the flag is not polled, the loop runs to the end of the stream)
ask_stream_poll_unpolled ==
  /\ pc = "ask_stream_poll"
  /\ frame.produced < frame.stream_len
  /\ pc' = "ask_stream"
  /\ UNCHANGED <<conversation, streaming, active_preset_name, next_id, frame,
                 calls, stage, result, last_op, start>>
  /\ UNCHANGED <<implemented, provider, model>>

ask_stream_poll ==
  /\ pc = "ask_stream_poll"
  /\ streaming
  /\ frame.produced < frame.stream_len
  /\ pc' = "ask_stream"
  /\ UNCHANGED <<conversation, streaming, active_preset_name, next_id, frame,
                 calls, stage, result, last_op, start>>
  /\ UNCHANGED <<implemented, provider, model>>

\* the loop ends, on exhaustion or on an observed cancellation, and
\* ask_stream returns what it has assembled
ask_stream_return ==
  /\ pc = "ask_stream_poll"
  /\ ~streaming \/ frame.produced = frame.stream_len
  /\ streaming' = FALSE
  /\ result' = Triple(TRUE, frame.response, "Response received")
  /\ pc' = "idle"
  /\ last_op' = "ask_stream"
  /\ UNCHANGED <<conversation, active_preset_name, next_id, frame, calls,
                 stage, start>>
  /\ UNCHANGED <<implemented, provider, model>>

\* (faulty variant: the test of the flag is inverted, a running stream is not stopped)
terminate_stream_inverted ==
  /\ streaming' = IF ~streaming THEN FALSE ELSE streaming
  /\ frame' = IF streaming THEN [frame EXCEPT !.cancelled_at = frame.produced]
              ELSE frame
  /\ last_op' = IF streaming THEN "terminate_stream" ELSE last_op
  /\ UNCHANGED <<conversation, active_preset_name, next_id, pc, calls,
                 stage, result, start>>
  /\ UNCHANGED <<implemented, provider, model>>

\* Backend.terminate_stream, the handler of the termination signal;
\* cancelled_at notes how many chunks had been consumed when it stopped a
\* running stream
terminate_stream ==
  /\ streaming' = IF streaming THEN FALSE ELSE streaming
  /\ frame' = IF streaming THEN [frame EXCEPT !.cancelled_at = frame.produced]
              ELSE frame
  /\ last_op' = IF streaming THEN "terminate_stream" ELSE last_op
  /\ UNCHANGED <<conversation, active_preset_name, next_id, pc, calls,
                 stage, result, start>>
  /\ UNCHANGED <<implemented, provider, model>>

Next ==
  \/ new_conversation
  \/ extract_call
  \/ run_template
  \/ run_template_lookup
  \/ run_template_merge_vars
  \/ run_template_setup_build
  \/ run_template_setup_extract
  \/ run_template_setup_llm
  \/ run_template_merge_overrides
  \/ run_template_compiled
  \/ set_title
  \/ set_model
  \/ ask_stream
  \/ ask_stream_fail
  \/ ask_stream_chunk
  \/ ask_stream_poll
  \/ ask_stream_return
  \/ terminate_stream

Spec == Init /\ [][Next]_vars

\* a call of a method the concrete backend class does not define raises
\* AttributeError out of the operation: self.activate_preset at line 120
\* (from run_template_setup or from a direct call of the resolver) and
\* self._ask at line 163
attribute_error ==
  /\ \/ /\ pc = "run_template_compiled"
        /\ "_ask" \notin implemented
        /\ result' = Raised("AttributeError", "_ask")
        /\ UNCHANGED frame
     \/ /\ pc = "extract_preset_configuration_from_overrides"
        /\ "activate_preset" \notin implemented
        /\ extract_preset_configuration_from_overrides(
             frame.template_overrides, active_preset_name).activate # <<>>
        /\ result' = Raised("AttributeError", "activate_preset")
        /\ frame' = [frame EXCEPT !.resolver_arg = frame.template_overrides]
     \/ /\ pc = "idle"
        /\ "activate_preset" \notin implemented
        /\ \E overrides \in OverridePayloads :
             /\ extract_preset_configuration_from_overrides(
                  overrides, active_preset_name).activate # <<>>
             /\ frame' = [NoFrame EXCEPT !.resolver_arg = overrides]
        /\ result' = Raised("AttributeError", "activate_preset")
  /\ pc' = "raised"
  /\ UNCHANGED <<conversation, streaming, active_preset_name, next_id, calls,
                 stage, last_op, start, implemented, provider, model>>

NextContract == Next \/ attribute_error

SpecContract == InitContract /\ [][NextContract]_vars

\* ------------------------------------------------------------- properties
\* the resolver has run in the current / last operation
Resolved == "extract" \in DOMAIN stage

\* the payload the resolver was handed and its request_overrides
ResolverRequestOverrides == Get(frame.resolver_arg, "request_overrides")

\* the standing active preset when the resolver ran
StandingPreset == start.active_preset_name

\* the resolver's input carries preset_overrides and no preset key
OverridesOnly ==
  /\ Resolved
  /\ Has(frame.resolver_arg, "request_overrides")
  /\ Has(ResolverRequestOverrides, "preset_overrides")
  /\ ~Has(ResolverRequestOverrides, "preset")

\* C1: whenever the resolver ran on a payload whose request_overrides holds
\* preset_overrides but no preset key while the standing active preset was
\* None or empty, it returned failure with the message
\* "No active preset to override".
C1_NoActivePresetFails ==
  (OverridesOnly /\ StandingPreset \in {None, Str("")})
    => /\ stage["extract"].success = FALSE
       /\ stage["extract"].message = "No active preset to override"

C1_Witness ==
  /\ OverridesOnly
  /\ StandingPreset = Str("")
  /\ last_op = "extract_preset_configuration_from_overrides"
  /\ ~result.success

\* the resolver's input carries an explicit preset key
ExplicitPreset ==
  /\ Resolved
  /\ Has(frame.resolver_arg, "request_overrides")
  /\ Has(ResolverRequestOverrides, "preset")

\* C2: whenever the resolver ran on a payload with an explicit preset key,
\* the preset name in the returned payload is that explicit preset, whatever
\* the standing active preset was.
C2_ExplicitPresetWins ==
  ExplicitPreset
    => stage["extract"].payload.val[1] = Get(ResolverRequestOverrides, "preset")

C2_Witness ==
  /\ ExplicitPreset
  /\ Truthy(StandingPreset)
  /\ Truthy(Get(ResolverRequestOverrides, "preset"))
  /\ StandingPreset # Get(ResolverRequestOverrides, "preset")
  /\ stage["extract"].success
  /\ stage["extract"].payload.val[1] # StandingPreset

\* the resolver's input has no request_overrides, or one with neither key
NoPresetConfiguration ==
  /\ Resolved
  /\ \/ ~Has(frame.resolver_arg, "request_overrides")
     \/ /\ ~Has(ResolverRequestOverrides, "preset")
        /\ ~Has(ResolverRequestOverrides, "preset_overrides")

\* C3: whenever the resolver ran on a payload without request_overrides, or
\* whose request_overrides holds neither preset nor preset_overrides, it
\* returned success with preset name None and preset overrides None.
C3_NoPresetWork ==
  NoPresetConfiguration
    => /\ stage["extract"].success
       /\ stage["extract"].payload.val[1] = None
       /\ stage["extract"].payload.val[2] = None

C3_Witness ==
  /\ NoPresetConfiguration
  /\ Has(frame.resolver_arg, "request_overrides")
  /\ Has(ResolverRequestOverrides, "activate_preset")
  /\ Truthy(Get(ResolverRequestOverrides, "activate_preset"))
  /\ Truthy(StandingPreset)
  /\ stage["extract"].success

\* ---------------------------------------------------- pipeline properties
\* the current / last operation is a run_template call
InRun == frame.template_name # None

\* run_template has returned and nothing has begun since
Returned == last_op = "run_template" /\ pc = "idle" /\ InRun

Called(fn) == \E i \in 1..Len(calls) : calls[i].fn = fn

CountCalls(fn) == Cardinality({i \in 1..Len(calls) : calls[i].fn = fn})

\* stage s ran and reported failure
Failed(s) == s \in DOMAIN stage /\ ~stage[s].success

\* C4: in run_template, once the template lookup, the resolver or
\* set_override_llm has failed, the run is over and no later stage was
\* called: after a lookup failure neither compilation, resolution, override
\* LLM construction nor the dispatch; after a resolver failure neither the
\* override LLM construction nor the dispatch; after an override LLM failure
\* not the dispatch.
C4_ShortCircuit ==
  InRun =>
    /\ Failed("lookup") =>
         /\ pc = "idle"
         /\ ~Called("build_message_from_template")
         /\ ~Called("extract_preset_configuration_from_overrides")
         /\ ~Called("set_override_llm")
         /\ ~Called("_ask")
    /\ Failed("extract") =>
         /\ pc = "idle"
         /\ ~Called("set_override_llm")
         /\ ~Called("_ask")
    /\ Failed("llm") =>
         /\ pc = "idle"
         /\ ~Called("_ask")

C4_Witness ==
  /\ Returned
  /\ Failed("llm")
  /\ Called("set_override_llm")
  /\ ~result.success

\* C5 as stated: run_template returns the failing stage's triple verbatim,
\* success indicator, payload and message, for each of the three stages.
C5_Verbatim ==
  Returned =>
    \A s \in {"lookup", "extract", "llm"} : Failed(s) => result = stage[s]

\* C5 amended: run_template returns the failing stage's success indicator
\* and message for each of the three stages; the payload is the failing
\* stage's payload for the lookup and for set_override_llm, and the tuple
\* (message, None, template overrides) of run_template_setup for the
\* resolver.
C5_FailurePropagates ==
  Returned =>
    /\ \A s \in {"lookup", "extract", "llm"} :
         Failed(s) => /\ result.success = stage[s].success
                      /\ result.message = stage[s].message
    /\ \A s \in {"lookup", "llm"} :
         Failed(s) => result.payload = stage[s].payload
    /\ Failed("extract") =>
         result.payload = Tuple(<<frame.message, None, frame.resolver_arg>>)

C5_Witness ==
  /\ Returned
  /\ Failed("extract")
  /\ result.message = "No active preset to override"
  /\ result.payload # stage["extract"].payload

\* run_template has returned after the resolver activated the explicit
\* preset of the template's overrides and set_override_llm failed
ActivatedThenLlmFailed ==
  /\ Returned
  /\ Failed("llm")
  /\ ExplicitPreset
  /\ Has(ResolverRequestOverrides, "activate_preset")
  /\ Truthy(Get(ResolverRequestOverrides, "activate_preset"))

\* C6: when the resolver activated the explicit preset P and
\* set_override_llm then failed, run_template returns failure, the call
\* activate_preset(P) was made and is the only activation of the run, and
\* the standing active preset is P, not the one the run started with.
C6_NoRollback ==
  ActivatedThenLlmFailed =>
    /\ ~result.success
    /\ \E i \in 1..Len(calls) :
         /\ calls[i].fn = "activate_preset"
         /\ calls[i].args = <<Get(ResolverRequestOverrides, "preset")>>
    /\ CountCalls("activate_preset") = 1
    /\ active_preset_name = Get(ResolverRequestOverrides, "preset")

C6_Witness ==
  /\ ActivatedThenLlmFailed
  /\ Truthy(StandingPreset)
  /\ StandingPreset # Get(ResolverRequestOverrides, "preset")
  /\ active_preset_name # StandingPreset

\* run_template reached the dispatch and has returned
Dispatched == Returned /\ "ask" \in DOMAIN stage

\* the override payload the dispatch was called with
DispatchedOverrides == calls[Len(calls)].args[2]

\* the mapping a caller's argument stands for (None: no entries)
CallerMap(arg) == IF arg = None THEN EmptyMap ELSE arg.val

\* C7: the override payload dispatched by run_template has exactly the keys
\* of the template's declared overrides and of the caller's overrides, with
\* the caller's value on every key the caller supplies and the template's
\* value on the others.
C7_CallerOverridesWin ==
  Dispatched =>
    LET d == DispatchedOverrides.val
        t == Templates[frame.template_name.val].overrides.val
        c == CallerMap(frame.args.overrides)
    IN /\ DOMAIN d = DOMAIN t \cup DOMAIN c
       /\ \A k \in DOMAIN d : d[k] = IF k \in DOMAIN c THEN c[k] ELSE t[k]

C7_Witness ==
  /\ Dispatched
  /\ Templates[frame.template_name.val].overrides
       = Dict(("a" :> Num(1)) @@ ("b" :> Num(2)))
  /\ frame.args.overrides = Dict(("b" :> Num(3)) @@ ("c" :> Num(4)))
  /\ DispatchedOverrides = Dict(("a" :> Num(1)) @@ ("b" :> Num(3)) @@ ("c" :> Num(4)))

\* C8: the substitutions run_template hands to run_template_setup have
\* exactly the keys of the storage's substitutions and of the caller's
\* template_vars, with the caller's value on every key the caller supplies
\* and the storage's value on the others.
C8_CallerVarsWin ==
  (InRun /\ pc = "run_template_setup") =>
    LET m == frame.substitutions.val
        t == Templates[frame.template_name.val].substitutions.val
        c == CallerMap(frame.args.template_vars)
    IN /\ DOMAIN m = DOMAIN t \cup DOMAIN c
       /\ \A k \in DOMAIN m : m[k] = IF k \in DOMAIN c THEN c[k] ELSE t[k]

C8_Witness ==
  /\ InRun
  /\ pc = "run_template_setup"
  /\ frame.template_name = Str("story")
  /\ frame.args.template_vars
       = Dict(("name" :> Str("Bob")) @@ ("mood" :> Str("happy")))
  /\ frame.substitutions
       = Dict(("name" :> Str("Bob")) @@ ("lang" :> Str("en")) @@ ("mood" :> Str("happy")))

\* C9: when run_template reaches the dispatch, _ask is called once, with the
\* compiled message and the final overrides, and run_template returns the
\* triple that call returned: a provider failure is returned as a failed
\* triple with the provider's payload and message.
C9_DispatchResultUnchanged ==
  Dispatched =>
    /\ CountCalls("_ask") = 1
    /\ calls[Len(calls)] = Call("_ask", <<frame.message, frame.template_overrides>>)
    /\ result.success = stage["ask"].success
    /\ result.payload = stage["ask"].payload
    /\ result.message = stage["ask"].message

C9_Witness ==
  /\ Dispatched
  /\ ~stage["ask"].success
  /\ ~result.success
  /\ result.payload = Str("provider error")
  /\ result.message = "Provider request failed"

\* C10: new_conversation can be called in every state in which the session
\* is not inside another call, and when it has returned the conversation
\* identifier, the title, the title-set flag and the message clipboard are
\* all None.
C10_NewConversationClears ==
  /\ pc = "idle" => ENABLED new_conversation
  /\ last_op = "new_conversation" =>
       /\ conversation_id = None
       /\ conversation_title = None
       /\ conversation_title_set = None
       /\ message_clipboard = None

C10_Witness ==
  /\ last_op = "new_conversation"
  /\ start.conversation_id # None
  /\ start.conversation_title # None
  /\ start.conversation_title_set # None
  /\ start.message_clipboard # None
  /\ conversation_id = None
  /\ message_clipboard = None

\* ---------------------------------------------------- contract properties
\* C11: a concrete backend that leaves out a capability the pipeline needs
\* is refused at construction, so that no operation of a constructed
\* backend raises for a missing method.
C11_NoMissingCapabilityAtUse == pc # "raised"

\* --------------------------------------------------- streaming properties
\* the current / last operation is an ask_stream call
InStream == frame.request_overrides # None

\* ask_stream has returned and nothing has begun since
StreamReturned == InStream /\ last_op = "ask_stream" /\ pc = "idle"

\* the first n chunks of the provider's stream, assembled
RECURSIVE Assembled(_)
Assembled(n) == IF n = 0 THEN "" ELSE Assembled(n - 1) \o Chunks[n]

\* C12: in an ask_stream called with a stream_callback, the calls of the
\* callback made so far are exactly one per consumed chunk, in generation
\* order; when ask_stream has returned success, at least one chunk was
\* consumed, all callback calls have been made, and the response is the
\* non-empty string assembled from the consumed chunks.
C12_CallbackPerChunkInOrder ==
  (InStream /\ Has(frame.request_overrides, "stream_callback")) =>
    /\ calls = [i \in 1..frame.produced |->
                  Call("stream_callback", <<Str(Chunks[i])>>)]
    /\ (StreamReturned /\ result.success) =>
         /\ frame.produced >= 1
         /\ result.payload = Str(Assembled(frame.produced))
         /\ result.payload.val # ""

C12_Witness ==
  /\ StreamReturned
  /\ result.success
  /\ Has(frame.request_overrides, "stream_callback")
  /\ frame.cancelled_at = -1
  /\ frame.produced >= 2
  /\ Len(calls) = frame.produced

\* terminate_stream has stopped the stream of the current / last ask_stream
Cancelled == InStream /\ frame.cancelled_at >= 0

\* C13: once terminate_stream has cleared the streaming flag of a running
\* ask_stream, at most the chunk up to the next chunk boundary is consumed
\* and none after it, and ask_stream, unless the provider failed, returns
\* success with the response assembled from the chunks consumed so far.
C13_CancellationStopsStream ==
  Cancelled =>
    /\ frame.produced <= frame.cancelled_at + 1
    /\ (StreamReturned /\ ~frame.stream_fails) =>
         /\ result.success
         /\ result.payload = Str(Assembled(frame.produced))

C13_Witness ==
  /\ StreamReturned
  /\ Cancelled
  /\ frame.produced >= 1
  /\ frame.produced < frame.stream_len
  /\ result.success
  /\ result.payload.val # ""

\* ------------------------------------------------------ dispatch properties
\* the caller's template_vars laid over the storage's substitutions
MergedSubstitutions ==
  LET t == Templates[frame.template_name.val].substitutions.val
      c == CallerMap(frame.args.template_vars)
  IN Dict([k \in DOMAIN t \cup DOMAIN c |-> IF k \in DOMAIN c THEN c[k] ELSE t[k]])

\* the template declares no overrides and the caller passes none
NoOverridesAtAll ==
  /\ Templates[frame.template_name.val].overrides = Dict(EmptyMap)
  /\ frame.args.overrides \in {None, Dict(EmptyMap)}

\* C14: when a run_template of a template without declared overrides, called
\* without overrides, has dispatched and returned success, the dispatch
\* received the template's body rendered with the merged substitutions and
\* an empty override payload.
C14_CompiledMessageDispatched ==
  (Dispatched /\ result.success /\ NoOverridesAtAll) =>
    calls[Len(calls)].args
      = <<Str(Render(Templates[frame.template_name.val].body, MergedSubstitutions)),
          Dict(EmptyMap)>>

C14_Witness ==
  /\ Dispatched
  /\ result.success
  /\ frame.template_name = Str("greet")
  /\ Templates["greet"].body = <<Lit("Hello, "), Var("name")>>
  /\ frame.args.template_vars = Dict("name" :> Str("Ada"))
  /\ frame.args.overrides = Dict(EmptyMap)
  /\ calls[Len(calls)] = Call("_ask", <<Str("Hello, Ada"), Dict(EmptyMap)>>)

\* ---------------------------------------------------- lifecycle properties
\* new_conversation has just returned: nothing has begun or returned since
JustCleared == last_op = "new_conversation" /\ start.op = "new_conversation"

\* C15: when new_conversation has returned, the streaming flag, the active
\* preset, the active model and the provider handle are what they were when
\* it was called, also when it was called while a stream was in flight.
C15_NewConversationFrame ==
  JustCleared =>
    /\ streaming = start.streaming
    /\ active_preset_name = start.active_preset_name
    /\ model = start.model
    /\ provider = start.provider

C15_Witness ==
  /\ JustCleared
  /\ streaming
  /\ start.streaming
  /\ pc = "ask_stream_poll"
  /\ model # None
  /\ provider # None
  /\ Truthy(active_preset_name)
  /\ start.conversation_id # None
  /\ conversation_id = None

\* ------------------------------------------------------- setup properties
\* the set_override_llm calls of the current / last operation
OverrideLlmCalls == SelectSeq(calls, LAMBDA c : c.fn = "set_override_llm")

\* run_template_setup has got past its set_override_llm step
LlmStepDone ==
  /\ InRun
  /\ Resolved
  /\ pc \in {"merge_overrides", "run_template_compiled", "idle"}

\* C16: in a run_template, set_override_llm is not called before the
\* resolver has returned; once run_template_setup is past that step it has
\* called set_override_llm exactly once, with the preset name and preset
\* overrides of the resolver's payload, if the resolver succeeded with a
\* non-empty preset name, and not at all if the resolver failed or returned
\* no preset name.
C16_OverrideLlmWhenPresetResolved ==
  InRun =>
    /\ (~Resolved \/ pc = "set_override_llm") => OverrideLlmCalls = <<>>
    /\ LlmStepDone =>
         IF /\ stage["extract"].success
            /\ Truthy(stage["extract"].payload.val[1])
         THEN OverrideLlmCalls
                = <<Call("set_override_llm",
                         <<stage["extract"].payload.val[1],
                           stage["extract"].payload.val[2]>>)>>
         ELSE OverrideLlmCalls = <<>>

C16_Witness ==
  /\ LlmStepDone
  /\ stage["extract"].success
  /\ OverrideLlmCalls
       = <<Call("set_override_llm",
                <<Str(PresetPool[1]), Dict("temperature" :> Num(0))>>)>>
  /\ ~Has(ResolverRequestOverrides, "preset")

\* ---------------------------------------------------- activation properties
\* the self.activate_preset calls of the current / last operation
ActivatePresetCalls == SelectSeq(calls, LAMBDA c : c.fn = "activate_preset")

\* the resolver's input asks for activation: an explicit preset together
\* with a truthy activate_preset
ActivationRequested ==
  /\ Has(frame.resolver_arg, "request_overrides")
  /\ Has(ResolverRequestOverrides, "preset")
  /\ Has(ResolverRequestOverrides, "activate_preset")
  /\ Truthy(Get(ResolverRequestOverrides, "activate_preset"))

\* C17: once the resolver has run, it has called activate_preset exactly
\* once, with the explicit preset name, if its input's request_overrides
\* holds a preset key and a truthy activate_preset; otherwise (fallback to
\* the standing active preset, activate_preset absent or falsy) it has not
\* called activate_preset and the standing active preset is what it was.
C17_ActivationOnlyOnRequest ==
  Resolved =>
    IF ActivationRequested
    THEN ActivatePresetCalls
           = <<Call("activate_preset", <<Get(ResolverRequestOverrides, "preset")>>)>>
    ELSE /\ ActivatePresetCalls = <<>>
         /\ active_preset_name = StandingPreset

\* an explicit preset with a falsy activate_preset, under another standing
\* active preset
C17_Witness ==
  /\ Resolved
  /\ Has(frame.resolver_arg, "request_overrides")
  /\ Has(ResolverRequestOverrides, "preset")
  /\ Has(ResolverRequestOverrides, "activate_preset")
  /\ ~Truthy(Get(ResolverRequestOverrides, "activate_preset"))
  /\ Truthy(Get(ResolverRequestOverrides, "preset"))
  /\ Truthy(StandingPreset)
  /\ StandingPreset # Get(ResolverRequestOverrides, "preset")
  /\ ActivatePresetCalls = <<>>

\* an explicit preset with a truthy activate_preset has been activated
C17_Activated ==
  /\ Resolved
  /\ ActivationRequested
  /\ Len(ActivatePresetCalls) = 1
  /\ active_preset_name # StandingPreset

\* -------------------------------------------------------- order of stages
\* the calls run_template and its helpers make themselves, by name, in
\* order; the resolver's own call of activate_preset is part of its stage
StageCalls ==
  LET own == SelectSeq(calls, LAMBDA c : c.fn # "activate_preset")
  IN [i \in 1..Len(own) |-> own[i].fn]

\* the stages of a run that resolves a preset
StageOrder ==
  <<"get_template_variables_substitutions", "merge_dicts",
    "build_message_from_template",
    "extract_preset_configuration_from_overrides", "set_override_llm",
    "merge_dicts", "_ask">>

\* the stages of a run that resolves no preset
StageOrderNoPreset ==
  <<"get_template_variables_substitutions", "merge_dicts",
    "build_message_from_template",
    "extract_preset_configuration_from_overrides",
    "merge_dicts", "_ask">>

IsPrefix(s, t) == Len(s) <= Len(t) /\ SubSeq(t, 1, Len(s)) = s

\* the position of the thread of control after the first n stage calls of
\* order have returned without a failure
NextStage(order, n) ==
  IF n = Len(order) THEN "idle"
  ELSE CASE order[n + 1] = "get_template_variables_substitutions"
              -> "get_template_variables_substitutions"
         [] order[n + 1] = "merge_dicts" /\ n = 1 -> "merge_template_vars"
         [] order[n + 1] = "build_message_from_template" -> "run_template_setup"
         [] order[n + 1] = "extract_preset_configuration_from_overrides"
              -> "extract_preset_configuration_from_overrides"
         [] order[n + 1] = "set_override_llm" -> "set_override_llm"
         [] order[n + 1] = "merge_dicts" /\ n > 1 -> "merge_overrides"
         [] order[n + 1] = "_ask" -> "run_template_compiled"

\* C18: at every point of a run_template the stage calls made so far are an
\* initial part of the order lookup, merge of the caller's variables,
\* compilation, preset resolution, override LLM construction (only when the
\* resolver returned a preset name), merge of the caller's overrides,
\* dispatch; no stage is called twice and the thread of control stands at
\* one stage only; a run that reaches the dispatch has gone through all of
\* them and called _ask exactly once.
C18_StageOrder ==
  InRun =>
    /\ IsPrefix(StageCalls, StageOrder) \/ IsPrefix(StageCalls, StageOrderNoPreset)
    /\ Called("set_override_llm") =>
         /\ Resolved
         /\ Truthy(stage["extract"].payload.val[1])
    /\ Dispatched =>
         /\ StageCalls = IF Truthy(stage["extract"].payload.val[1])
                         THEN StageOrder ELSE StageOrderNoPreset
         /\ CountCalls("_ask") = 1
    /\ pc # "idle" =>
         \/ pc = NextStage(StageOrder, Len(StageCalls))
         \/ pc = NextStage(StageOrderNoPreset, Len(StageCalls))

C18_Witness ==
  /\ Dispatched
  /\ StageCalls = StageOrder
  /\ Called("activate_preset")
  /\ stage["ask"].success

\* a dispatched run that resolved no preset
C18_NoPresetRun == Dispatched /\ StageCalls = StageOrderNoPreset

\* ------------------------------------------------- failure of the resolver
\* the resolver returned the failure "No active preset to override"
ResolverFailed ==
  /\ Resolved
  /\ ~stage["extract"].success
  /\ stage["extract"].message = "No active preset to override"

\* C19: whenever the resolver has returned the failure "No active preset to
\* override", it has not called activate_preset during that call.
C19_FailureHasNoSideEffect == ResolverFailed => ActivatePresetCalls = <<>>

\* ------------------------------------------------ the caller's arguments
\* C20: throughout a run_template and after it has returned, with success
\* or with failure, the mappings the caller passed as template_vars and as
\* overrides hold what they held when the call was made.
C20_CallerArgumentsUntouched ==
  InRun =>
    /\ frame.caller.template_vars = frame.args.template_vars
    /\ frame.caller.overrides = frame.args.overrides

\* a dispatched run in which both locals refer to the caller's own mappings
\* and both merges changed the template's side
C20_Witness ==
  /\ Dispatched
  /\ frame.alias.template_vars
  /\ frame.alias.overrides
  /\ frame.caller = frame.args
  /\ DispatchedOverrides # frame.args.overrides
  /\ DispatchedOverrides # Templates[frame.template_name.val].overrides
  /\ MergedSubstitutions # frame.args.template_vars

====
